---------------------------- MODULE Spec2Model ----------------------------
(***************************************************************************)
(* A model of scripts/python/pdf_finder.py: the PDFFinder class.           *)
(*                                                                         *)
(*   Spec          the pipeline: __init__ (load), search_and_process       *)
(*                 (dedup, validate, merge) and save_results, over a disk  *)
(*                 file that a crash can leave half written, across        *)
(*                 process runs (each run has its own string-hash seed).   *)
(*   SpecCrawl     search_website_for_pdfs, one step per loop iteration    *)
(*                 and per anchor of the fetched page.                     *)
(*   SpecValidate  validate_pdf_url.                                       *)
(*   SpecSearch    search_using_google and search_using_duckduckgo.        *)
(***************************************************************************)
EXTENDS Integers, Sequences, FiniteSets, TLC

VARIABLES
    \* ---- the pipeline (PDFFinder object, process, disk) ----
    pc,             \* where the process is
    hash_seed,      \* this process's str-hash key (PYTHONHASHSEED, random by default)
    data,           \* self.data
    existing_urls,  \* self.existing_urls
    unique_urls,    \* search_and_process: the URLs still to validate
    results,        \* search_and_process: the list it returns
    disk,           \* the catalog file: output_file, and existing_file in append mode
    now,            \* the wall clock read by datetime.now()
    \* ---- history of the pipeline, for stating the claims ----
    load_kind,      \* what the constructor of this process found on disk
    call,           \* "none" since the constructor, "running", or "returned"
    all_urls,       \* the candidates of the current / last search_and_process call
    pdfs0,          \* data['pdfs'] when the current / last call started
    lv0,            \* data['lastValidated'] when the current / last call started
    head_log,       \* URLs handed to validate_pdf_url in the current / last call
    resumed,        \* a backend of the call failed and a later one still delivered URLs
    \* ---- search_website_for_pdfs ----
    cpc,            \* where the crawl is
    website_url,    \* the seed
    limit,
    visited,
    to_visit,
    c_results,      \* the crawl's results list
    current_url,
    page_links,     \* the hrefs of the anchors of the page just fetched
    link_idx,       \* how many of them the for loop has processed
    undelayed,      \* page fetches since the last _introduce_delay (2: two or more)
    enq_log,        \* the URLs appended to to_visit, in order, each with its depth
    fetch_log,      \* the URLs fetched (line 214), in order
    \* ---- validate_pdf_url ----
    vpc,
    v_url,
    v_verify,
    v_head,         \* the HEAD response
    v_get,          \* how the GET of the deep verification went ("none": not issued)
    temp_file,      \* the file temp_pdf_download_NNNN.pdf: "absent" or "exists"
    v_fail,         \* where the extraction raised ("not_run": no extraction, "none")
    v_ret,          \* the metadata so far, then the returned (is_valid, metadata)
    \* ---- search_using_google, search_using_duckduckgo ----
    s_pc,           \* where the search is
    s_method,       \* "google" or "duckduckgo"
    s_limit,
    s_results,      \* the search's results list
    s_links,        \* duckduckgo: the hrefs of the result anchors of the page
    s_seen,         \* the URLs the engine delivered so far (yielded, or unwrapped)
    s_failed,       \* a network or parse failure occurred in this call
    s_ret           \* the returned list

pipe_vars  == <<pc, hash_seed, data, existing_urls, unique_urls, results, disk, now,
                load_kind, call, all_urls, pdfs0, lv0, head_log, resumed>>
crawl_vars == <<cpc, website_url, limit, visited, to_visit, c_results, current_url,
                page_links, link_idx, undelayed, enq_log, fetch_log>>
val_vars   == <<vpc, v_url, v_verify, v_head, v_get, temp_file, v_fail, v_ret>>
search_vars == <<s_pc, s_method, s_limit, s_results, s_links, s_seen, s_failed, s_ret>>
vars       == <<pipe_vars, crawl_vars, val_vars, search_vars>>

Range(s) == {s[i] : i \in DOMAIN s}

NoDup(s) == \A i, j \in DOMAIN s : i # j => s[i] # s[j]

None == "None"

-----------------------------------------------------------------------------
(***************************************************************************)
(* Bounds of the model.                                                    *)
(***************************************************************************)
MaxClock      == 2   \* save_results calls (clock ticks) the model follows
MaxCandidates == 2   \* candidate URLs one search_and_process call discovers

\* Candidate URL strings the backends return (opaque to the pipeline).
PipeUrls == {"https://a.example/x.pdf", "https://a.example/y.pdf"}

\* The hash keys a process may start with.
HashSeeds == {0, 1}

RECURSIVE SeqsUpTo(_, _)
SeqsUpTo(S, n) ==
    IF n = 0 THEN {<<>>}
    ELSE LET shorter == SeqsUpTo(S, n - 1)
         IN  shorter \cup {Append(s, x) : s \in {t \in shorter : Len(t) = n - 1}, x \in S}

-----------------------------------------------------------------------------
(***************************************************************************)
(* Stable-ID generation (search_and_process, line 438):                    *)
(*     pdf_id = f"pdf{abs(hash(url)) % 10000000:07d}"                      *)
(* hash() of a str is keyed by a per-process key: unless PYTHONHASHSEED is *)
(* set, CPython draws the key at interpreter start, so the value differs   *)
(* from one run to the next.  The keyed hash is modelled by a mixing       *)
(* function of the key and of the string's code into a signed 16-bit       *)
(* range.                                                                  *)
(***************************************************************************)
StrCode(s) ==
    CASE s = "https://a.example/x.pdf" -> 11
      [] s = "https://a.example/y.pdf" -> 23
      [] s = "https://b.example/z.pdf" -> 37
      [] OTHER -> 5

PyHash(seed, s) == ((StrCode(s) * 1000003 + seed * 7919) % 65536) - 32768

Abs(n) == IF n < 0 THEN -n ELSE n

\* The id "pdfNNNNNNN" is represented by the pair <<"pdf", NNNNNNN>>.
PdfId(seed, url) == <<"pdf", Abs(PyHash(seed, url)) % 10000000>>

(***************************************************************************)
(* The catalog and its entries.                                            *)
(***************************************************************************)
\* datetime.now().strftime("%Y-%m-%d"): the day of a clock reading.
Day(t) == t \div 2

EmptyData(t) == [lastValidated |-> t, pdfs |-> <<>>]

\* How a validate_pdf_url call ends for search_and_process: a rejection, a
\* failure (an exception raised inside it), or (True, metadata).
NoMetadata == [k \in {} |-> None]
ValidationOutcomes ==
    { [ok |-> FALSE, raised |-> FALSE, metadata |-> NoMetadata],
      [ok |-> FALSE, raised |-> TRUE,  metadata |-> NoMetadata],
      [ok |-> TRUE,  raised |-> FALSE, metadata |-> [title |-> "X", pages |-> 3]] }

\* Lines 132, 183, 248 and 378: the `except Exception` clauses of the three
\* backends and of validate_pdf_url catch every failure of their try block.
Caught_BackendsOnly(where) == where = "backend"

Caught(where) == TRUE

\* How the call of one backend ends (lines 408, 413, 418): the URLs it
\* returns, and whether a failure cut it short.
BackendReturn(failed, urls) == [failed |-> failed, urls |-> urls]

\* Lines 440-458: the entry built from a validated URL.
PdfEntry(pdf_id, url, metadata, t) ==
    [ id          |-> pdf_id,
      url         |-> url,
      title       |-> IF "title" \in DOMAIN metadata THEN metadata.title
                                                     ELSE "Untitled PDF",
      dateAdded   |-> Day(t),
      lastChecked |-> Day(t),
      isAvailable |-> TRUE,
      lastStatus  |-> 200 ]
    @@ (IF "pages" \in DOMAIN metadata THEN [pages |-> metadata.pages] ELSE NoMetadata)

\* Line 89: {pdf['url'] for pdf in self.data['pdfs']}
UrlsOf(pdfs) == {pdfs[i].url : i \in DOMAIN pdfs}

\* Line 425: the test that lets a discovered URL through to validation.
IsNewUrl_NoExisting(url, seen, existing) == url \notin seen

IsNewUrl(url, seen, existing) == url \notin seen /\ url \notin existing

\* Line 466: self.existing_urls.add(url)
AddKnown_Forget(existing, url) == existing

AddKnown_Only(existing, url) == {url}

AddKnown(existing, url) == existing \cup {url}

\* Line 463: self.data['pdfs'].append(pdf_entry)
AppendEntry_Front(pdfs, entry) == <<entry>> \o pdfs

AppendEntry(pdfs, entry) == Append(pdfs, entry)

\* Line 478: self.data["lastValidated"] = datetime.now().isoformat()
Stamp_Keep(old, t) == old

Stamp(old, t) == t

\* Lines 421-427: remove duplicates while preserving order.
RECURSIVE UniqueFrom(_, _, _)
UniqueFrom(urls, seen, existing) ==
    IF urls = <<>> THEN <<>>
    ELSE IF IsNewUrl(Head(urls), seen, existing)
         THEN <<Head(urls)>> \o UniqueFrom(Tail(urls), seen \cup {Head(urls)}, existing)
         ELSE UniqueFrom(Tail(urls), seen, existing)

(***************************************************************************)
(* The catalog file.  state: "missing", "unreadable" (exists, open() is    *)
(* refused), "garbage" (not JSON), "empty" (truncated by open(.., 'w')),   *)
(* "partial" (a proper prefix of a dump), "complete" (doc is its JSON).    *)
(***************************************************************************)
File(st, doc) == [state |-> st, doc |-> doc]

\* The doc of a file that holds no JSON document.
NoDoc == [none |-> TRUE]

\* An entry written by an earlier run of the program, whose hash seed was 0.
OldEntry == [ id |-> PdfId(0, "https://a.example/x.pdf"), url |-> "https://a.example/x.pdf", title |-> "X",
              dateAdded |-> 0, lastChecked |-> 0, isAvailable |-> TRUE, lastStatus |-> 200 ]

DiskInit ==
    { File("missing", NoDoc), File("unreadable", NoDoc), File("garbage", NoDoc),
      File("complete", [lastValidated |-> 0]),                               \* no 'pdfs' key
      File("complete", [lastValidated |-> 0, pdfs |-> <<[title |-> "X"]>>]), \* entry without 'url'
      File("complete", [lastValidated |-> 0, pdfs |-> <<>>]),
      File("complete", [lastValidated |-> 0, pdfs |-> <<OldEntry>>]) }

WellFormed(doc) ==
    /\ "pdfs" \in DOMAIN doc
    /\ \A i \in DOMAIN doc.pdfs : "url" \in DOMAIN doc.pdfs[i]

\* How the constructor's load of `existing_file` goes, by what is on disk.
LoadKind(use_existing, d) ==
    IF ~use_existing THEN "no_existing_file"
    ELSE CASE d.state = "missing"    -> "missing"
           [] d.state = "unreadable" -> "unreadable"
           [] d.state \in {"garbage", "empty", "partial"} -> "not_json"
           [] OTHER -> IF "pdfs" \notin DOMAIN d.doc THEN "no_pdfs_key"
                       ELSE IF ~WellFormed(d.doc) THEN "entry_without_url"
                       ELSE "well_formed"

-----------------------------------------------------------------------------
(***************************************************************************)
(* The pipeline's actions.                                                 *)
(*   pc: "off" (no process), "ctor_raised" (__init__ raised), "idle" (a    *)
(*   PDFFinder exists, no call in progress), "validate" (the loop of lines *)
(*   434-469), "save" / "dump" / "close" (save_results: before open(),     *)
(*   file open and truncated, first bytes of the dump written),            *)
(*   "save_raised" (open() raised out of search_and_process), "call_raised" *)
(*   (a failure of a backend or of a validation left search_and_process).  *)
(***************************************************************************)
hist_unchanged == UNCHANGED <<all_urls, pdfs0, lv0, head_log, resumed>>

Min(a, b) == IF a < b THEN a ELSE b

\* The runs of the loop of lines 404-419 over search_methods (two backends,
\* as by default): what each backend returns.
BackendRuns ==
    { << BackendReturn(f1, SubSeq(u, 1, Min(k, Len(u)))),
         BackendReturn(f2, SubSeq(u, Min(k, Len(u)) + 1, Len(u))) >> :
         u \in SeqsUpTo(PipeUrls, MaxCandidates), k \in 0 .. MaxCandidates,
         f1 \in BOOLEAN, f2 \in BOOLEAN }

\* Lines 409, 414, 419: all_urls.extend(urls), backend after backend.
RECURSIVE Collected(_)
Collected(outs) ==
    IF outs = <<>> THEN <<>> ELSE Head(outs).urls \o Collected(Tail(outs))

\* The length all_urls had reached (n the length before outs) when a backend
\* of outs first failed, -1 when none failed.
RECURSIVE FirstFailure(_, _)
FirstFailure(outs, n) ==
    IF outs = <<>> THEN -1
    ELSE IF Head(outs).failed THEN n + Len(Head(outs).urls)
    ELSE FirstFailure(Tail(outs), n + Len(Head(outs).urls))


\* main() starts a process and constructs the finder (lines 62-89).  With
\* use_existing the catalog file is the existing_file (main's append mode).
Construct(use_existing, seed) ==
    /\ UNCHANGED <<crawl_vars, val_vars, search_vars>>
    /\ pc = "off"
    /\ now < MaxClock
    /\ hash_seed' = seed
    /\ load_kind' = LoadKind(use_existing, disk)
    /\ IF use_existing /\ disk.state # "missing"                 \* line 77
       THEN IF disk.state = "unreadable"                         \* line 78: open() raises
            THEN /\ pc' = "ctor_raised"
                 /\ UNCHANGED <<data, existing_urls>>
            ELSE IF disk.state # "complete"                      \* lines 83-84
            THEN /\ data' = EmptyData(now)
                 /\ existing_urls' = {}
                 /\ pc' = "idle"
            ELSE /\ data' = disk.doc                             \* line 80
                 /\ IF WellFormed(disk.doc)                      \* line 89
                    THEN /\ existing_urls' = UrlsOf(disk.doc.pdfs)
                         /\ pc' = "idle"
                    ELSE /\ existing_urls' = {}                  \* KeyError
                         /\ pc' = "ctor_raised"
       ELSE /\ data' = EmptyData(now)                           \* line 86
            /\ existing_urls' = {}
            /\ pc' = "idle"
    /\ call' = "none"
    /\ UNCHANGED <<unique_urls, results, disk, now>>
    /\ hist_unchanged

\* search_and_process, lines 398-430: the backends are called one after
\* the other and their candidates collected, then the dedup against `seen`
\* and self.existing_urls.  A failure a backend did not catch would leave
\* search_and_process as an exception.
Discover(outs) ==
    /\ UNCHANGED <<crawl_vars, val_vars, search_vars>>
    /\ pc = "idle"
    /\ now < MaxClock
    /\ all_urls' = Collected(outs)
    /\ resumed' = (FirstFailure(outs, 0) \in 0 .. Len(Collected(outs)) - 1)
    /\ unique_urls' = UniqueFrom(Collected(outs), {}, existing_urls)
    /\ results' = <<>>
    /\ pdfs0' = data.pdfs
    /\ lv0' = data.lastValidated
    /\ head_log' = {}
    /\ call' = "running"
    /\ pc' = IF (\E i \in DOMAIN outs : outs[i].failed) /\ ~Caught("backend")
             THEN "call_raised" ELSE "validate"
    /\ UNCHANGED <<hash_seed, data, existing_urls, disk, now, load_kind>>

\* One iteration of the loop of lines 434-469.  A failure validate_pdf_url
\* did not catch would leave search_and_process as an exception.
ValidateNext(outcome) ==
    /\ UNCHANGED <<crawl_vars, val_vars, search_vars>>
    /\ pc = "validate"
    /\ unique_urls # <<>>
    /\ LET url   == Head(unique_urls)
           entry == PdfEntry(PdfId(hash_seed, url), url, outcome.metadata, now)
       IN  /\ head_log' = head_log \cup {url}
           /\ unique_urls' = Tail(unique_urls)
           /\ pc' = IF outcome.raised /\ ~Caught("validation") THEN "call_raised" ELSE pc
           /\ IF outcome.ok
              THEN /\ results' = Append(results, entry)                         \* line 462
                   /\ data' = [data EXCEPT !.pdfs = AppendEntry(@, entry)]      \* line 463
                   /\ existing_urls' = AddKnown(existing_urls, url)             \* line 466
              ELSE UNCHANGED <<results, data, existing_urls>>
    /\ UNCHANGED <<hash_seed, disk, now, load_kind, call, all_urls, pdfs0, lv0, resumed>>

\* Line 472: the loop is over, save_results is called; line 478.
SaveBegin ==
    /\ UNCHANGED <<crawl_vars, val_vars, search_vars>>
    /\ pc = "validate"
    /\ unique_urls = <<>>
    /\ now' = now + 1
    /\ data' = [data EXCEPT !.lastValidated = Stamp(@, now')]
    /\ pc' = "save"
    /\ UNCHANGED <<hash_seed, existing_urls, unique_urls, results, disk, load_kind, call>>
    /\ hist_unchanged

\* Line 483: open(self.output_file, 'w') truncates the catalog file in place,
\* or raises (a directory, no permission, a full disk).
SaveOpen ==
    /\ UNCHANGED <<crawl_vars, val_vars, search_vars>>
    /\ pc = "save"
    /\ \/ /\ disk' = File("empty", NoDoc)
          /\ pc' = "dump"
       \/ /\ pc' = "save_raised"
          /\ UNCHANGED disk
    /\ UNCHANGED <<hash_seed, data, existing_urls, unique_urls, results, now, load_kind,
                   call>>
    /\ hist_unchanged

\* Line 484: json.dump writes the document piece by piece into the open file.
SaveDump ==
    /\ UNCHANGED <<crawl_vars, val_vars, search_vars>>
    /\ pc = "dump"
    /\ disk' = File("partial", data)
    /\ pc' = "close"
    /\ UNCHANGED <<hash_seed, data, existing_urls, unique_urls, results, now, load_kind,
                   call>>
    /\ hist_unchanged

\* The end of the with block: the rest is written, the file closed; line 474.
SaveClose ==
    /\ UNCHANGED <<crawl_vars, val_vars, search_vars>>
    /\ pc = "close"
    /\ disk' = File("complete", data)
    /\ pc' = "idle"
    /\ call' = "returned"
    /\ UNCHANGED <<hash_seed, data, existing_urls, unique_urls, results, now, load_kind>>
    /\ hist_unchanged

\* The process ends: main() returns, an exception reaches the top, or the
\* process is killed at any point.  Only the disk survives.
ProcessEnd ==
    /\ UNCHANGED <<crawl_vars, val_vars, search_vars>>
    /\ pc # "off"
    /\ pc' = "off"
    /\ data' = EmptyData(0)
    /\ existing_urls' = {}
    /\ unique_urls' = <<>>
    /\ results' = <<>>
    /\ hash_seed' = 0
    /\ load_kind' = "no_existing_file"
    /\ call' = "none"
    /\ all_urls' = <<>>
    /\ pdfs0' = <<>>
    /\ lv0' = 0
    /\ head_log' = {}
    /\ resumed' = FALSE
    /\ UNCHANGED <<disk, now>>

InitPipe ==
    /\ pc = "off"
    /\ hash_seed = 0
    /\ data = EmptyData(0)
    /\ existing_urls = {}
    /\ unique_urls = <<>>
    /\ results = <<>>
    /\ disk \in DiskInit
    /\ now = 0
    /\ load_kind = "no_existing_file"
    /\ call = "none"
    /\ all_urls = <<>>
    /\ pdfs0 = <<>>
    /\ lv0 = 0
    /\ head_log = {}
    /\ resumed = FALSE

\* The crawler and the validator at rest.
InitCrawlIdle ==
    /\ cpc = "off"
    /\ website_url = <<>>
    /\ limit = 0
    /\ visited = {}
    /\ to_visit = <<>>
    /\ c_results = <<>>
    /\ current_url = <<>>
    /\ page_links = <<>>
    /\ link_idx = 0
    /\ undelayed = 0
    /\ enq_log = <<>>
    /\ fetch_log = <<>>

InitValIdle ==
    /\ vpc = "off"
    /\ v_url = <<>>
    /\ v_verify = FALSE
    /\ v_head = [exc |-> FALSE, status |-> 200, content_type |-> <<>>,
                 content_length |-> [kind |-> "absent", n |-> 0]]
    /\ v_get = "none"
    /\ temp_file = "absent"
    /\ v_fail = "not_run"
    /\ v_ret = [ok |-> FALSE, metadata |-> NoMetadata]

InitSearchIdle ==
    /\ s_pc = "off"
    /\ s_method = "google"
    /\ s_limit = 0
    /\ s_results = <<>>
    /\ s_links = <<>>
    /\ s_seen = <<>>
    /\ s_failed = FALSE
    /\ s_ret = <<>>

Init == InitPipe /\ InitCrawlIdle /\ InitValIdle /\ InitSearchIdle

Next ==
    \/ \E u \in BOOLEAN, seed \in HashSeeds : Construct(u, seed)
    \/ \E outs \in BackendRuns : Discover(outs)
    \/ \E o \in ValidationOutcomes : ValidateNext(o)
    \/ SaveBegin
    \/ SaveOpen
    \/ SaveDump
    \/ SaveClose
    \/ ProcessEnd

Spec == Init /\ [][Next]_vars

-----------------------------------------------------------------------------
(***************************************************************************)
(* search_website_for_pdfs (lines 189-252).                                *)
(*                                                                         *)
(* A URL string is the sequence of its pieces, so that startswith, lower,  *)
(* endswith, urlparse and urljoin compute on it:                           *)
(*    "https://a.example/a.pdf"  <<"https://", "a.example", "/", "a", ".pdf">> *)
(*    "//other.example/y.html"   <<"//", "other.example", "/", "y", ".html">>  *)
(*    "docs/D.PDF"               <<"docs/", "D", ".PDF">>                  *)
(***************************************************************************)
FrontierCap == 2   \* line 241's ceiling on len(to_visit), 50 in the code, scaled down
MaxLimit    == 3   \* the limits 0..MaxLimit a crawl is started with
MaxLinks    == 1   \* anchors on a page, the pages of LongPages apart

SeedUrl  == <<"https://", "a.example", "/">>
BareSeed == <<"a.example">>                       \* a seed typed without its scheme

HrefA     == <<"/", "a", ".pdf">>
HrefB     == <<"/", "b", ".html">>
HrefC     == <<"https://", "other.example", "/", "c", ".pdf">>
HrefRoot  == <<"/">>
HrefP1    == <<"https://", "a.example", "/", "p1", ".html">>
HrefY     == <<"//", "other.example", "/", "y", ".html">>
HrefD     == <<"docs/", "D", ".PDF">>

Hrefs == {HrefA, HrefB, HrefC, HrefRoot, HrefP1, HrefY, HrefD}

\* The seed page of the specification's scenario.
ScenarioPage == <<HrefA, HrefB, HrefC>>

\* Longer pages: the scenario's, one that links on to fresh pages and away
\* from the site, one that links back to the seed, one with three links into
\* the site.
LongPages == {ScenarioPage, <<HrefP1, HrefY, HrefD>>, <<HrefRoot, HrefB, HrefA>>,
              <<HrefB, HrefP1, HrefA>>}

\* What a fetched HTML page may hold.
PageContents == SeqsUpTo(Hrefs, MaxLinks) \cup LongPages

\* str.lower()
LowerPiece(t) ==
    CASE t = ".PDF" -> ".pdf"
      [] t = "D" -> "d"
      [] t = "Application/PDF" -> "application/pdf"
      [] OTHER -> t
Lower(s) == [i \in DOMAIN s |-> LowerPiece(s[i])]

\* str.startswith('/')
StartsWithSlash(s) == s # <<>> /\ s[1] \in {"/", "//"}

\* str.endswith('.pdf')
EndsWithPdf(s) == s # <<>> /\ s[Len(s)] = ".pdf"

\* urllib.parse.urlparse(s).netloc
Netloc(s) == IF Len(s) >= 2 /\ s[1] \in {"https://", "//"} THEN s[2] ELSE ""

\* The URL has a scheme and a host: requests can fetch it.
IsAbsolute(s) == Len(s) >= 2 /\ s[1] = "https://"

\* urllib.parse.urljoin(base, href), for the hrefs line 230 hands it.
UrlJoin(base, href) ==
    IF ~IsAbsolute(base) THEN href
    ELSE IF href[1] = "//" THEN <<base[1]>> \o Tail(href)
    ELSE <<base[1], base[2]>> \o href

\* Lines 229-231: handle relative URLs.
Resolve(current, href) ==
    IF StartsWithSlash(href) THEN UrlJoin(current, href) ELSE href

\* Line 234: is the link a PDF.
IsPdfLink_SameDomain(current, href) ==
    EndsWithPdf(Lower(href)) /\ Netloc(current) = Netloc(href)

IsPdfLink(current, href) == EndsWithPdf(Lower(href))

\* Line 242: stay on the same domain.
SameDomain_Any(current, href) == TRUE

SameDomain(current, href) == Netloc(current) = Netloc(href)

\* Lines 241-242: may the link be added to the frontier.
MayEnqueue_NoCap(current, href) ==
    /\ href \notin visited
    /\ href \notin Range(to_visit)
    /\ SameDomain(current, href)

MayEnqueue_Revisit(current, href) ==
    /\ Len(to_visit) < FrontierCap
    /\ href \notin Range(to_visit)
    /\ SameDomain(current, href)

MayEnqueue(current, href) ==
    /\ Len(to_visit) < FrontierCap
    /\ href \notin visited
    /\ href \notin Range(to_visit)
    /\ SameDomain(current, href)

\* Line 207: to_visit.pop(0) takes the oldest pending URL.
Pop_Last(queue) == [url |-> queue[Len(queue)], rest |-> SubSeq(queue, 1, Len(queue) - 1)]

Pop(queue) == [url |-> Head(queue), rest |-> Tail(queue)]

\* An entry of enq_log.
Enqueued(url, depth) == [url |-> url, depth |-> depth]

\* The depth of the page being fetched or parsed.
CurrentDepth == enq_log[CHOOSE i \in DOMAIN enq_log : enq_log[i].url = current_url].depth

pv_unchanged == UNCHANGED <<pipe_vars, val_vars, search_vars>>

\* Lines 200-203.
CrawlStart(seed, lim) ==
    /\ pv_unchanged
    /\ cpc = "off"
    /\ website_url' = seed
    /\ limit' = lim
    /\ c_results' = <<>>
    /\ visited' = {}
    /\ to_visit' = <<seed>>
    /\ cpc' = "loop"
    /\ enq_log' = <<Enqueued(seed, 0)>>
    /\ fetch_log' = <<>>
    /\ UNCHANGED <<current_url, page_links, link_idx, undelayed>>

\* Lines 206-211: the loop goes on, the head of to_visit is taken.
CrawlPop ==
    /\ pv_unchanged
    /\ cpc = "loop"
    /\ to_visit # <<>> /\ Len(c_results) < limit
    /\ current_url' = Pop(to_visit).url
    /\ to_visit' = Pop(to_visit).rest
    /\ IF Pop(to_visit).url \in visited
       THEN UNCHANGED <<visited, cpc, fetch_log>>                 \* continue
       ELSE /\ visited' = visited \cup {Pop(to_visit).url}
            /\ fetch_log' = Append(fetch_log, Pop(to_visit).url)
            /\ cpc' = "fetch"
    /\ UNCHANGED <<website_url, limit, c_results, page_links, link_idx, undelayed, enq_log>>

\* Lines 206, 252: the loop condition fails, results is returned.
CrawlReturn ==
    /\ pv_unchanged
    /\ cpc = "loop"
    /\ ~(to_visit # <<>> /\ Len(c_results) < limit)
    /\ cpc' = "done"
    /\ UNCHANGED <<website_url, limit, visited, to_visit, c_results, current_url,
                   page_links, link_idx, undelayed, enq_log, fetch_log>>

\* Lines 213-223 and 248-250: the GET of current_url.  kind: "exception" (a
\* timeout, a refused connection, a URL without scheme), "not_200",
\* "not_html", or "html" with the page's anchors.  The continue statements
\* of lines 216 and 221 and the handler of line 248 lead back to line 206.
CrawlFetch(kind, anchors) ==
    /\ pv_unchanged
    /\ cpc = "fetch"
    /\ ~IsAbsolute(current_url) => kind = "exception"
    /\ undelayed' = IF IsAbsolute(current_url) /\ undelayed < 2     \* a request is sent
                    THEN undelayed + 1 ELSE undelayed
    /\ IF kind = "html"
       THEN /\ page_links' = anchors
            /\ link_idx' = 0
            /\ cpc' = "links"
       ELSE /\ cpc' = "loop"
            /\ UNCHANGED <<page_links, link_idx>>
    /\ UNCHANGED <<website_url, limit, visited, to_visit, c_results, current_url,
                   enq_log, fetch_log>>

\* Lines 226-246: one iteration of the for loop over the anchors, or its end
\* (the anchors are exhausted); the loop left, by its end or by the break of
\* line 238, the delay of line 246 is taken.
CrawlLink ==
    /\ pv_unchanged
    /\ cpc = "links"
    /\ IF link_idx >= Len(page_links)
       THEN /\ cpc' = "loop"
            /\ undelayed' = 0                                      \* line 246
            /\ UNCHANGED <<c_results, to_visit, link_idx, enq_log>>
       ELSE LET href   == Resolve(current_url, page_links[link_idx + 1])
                is_new == IsPdfLink(current_url, href) /\ href \notin Range(c_results)
                res    == IF is_new THEN Append(c_results, href) ELSE c_results
            IN  /\ c_results' = res
                /\ link_idx' = link_idx + 1
                /\ IF is_new /\ Len(res) >= limit
                   THEN /\ cpc' = "loop"                          \* break, line 238
                        /\ undelayed' = 0                          \* line 246
                        /\ UNCHANGED <<to_visit, enq_log>>
                   ELSE /\ IF MayEnqueue(current_url, href)
                           THEN /\ to_visit' = Append(to_visit, href)
                                /\ enq_log' = Append(enq_log, Enqueued(href, CurrentDepth + 1))
                           ELSE UNCHANGED <<to_visit, enq_log>>
                        /\ UNCHANGED <<cpc, undelayed>>
    /\ UNCHANGED <<website_url, limit, visited, current_url, page_links, fetch_log>>

InitCrawl == InitPipe /\ InitCrawlIdle /\ InitValIdle /\ InitSearchIdle /\ disk = File("missing", NoDoc)

NextCrawl ==
    \/ \E seed \in {SeedUrl, BareSeed}, lim \in 0 .. MaxLimit : CrawlStart(seed, lim)
    \/ CrawlPop
    \/ CrawlReturn
    \/ \E kind \in {"exception", "not_200", "not_html"} : CrawlFetch(kind, <<>>)
    \/ \E anchors \in PageContents : CrawlFetch("html", anchors)
    \/ CrawlLink

SpecCrawl == InitCrawl /\ [][NextCrawl]_vars

-----------------------------------------------------------------------------
(***************************************************************************)
(* validate_pdf_url (lines 254-381).  A header value is, like a URL, the   *)
(* sequence of its pieces; sizeMB, a float with two decimals, is held in   *)
(* hundredths of a MB.                                                     *)
(***************************************************************************)
MB == 1024 * 1024

ValUrls ==
    { <<"https://", "a.example", "/", "a", ".pdf">>,
      <<"https://", "a.example", "/", "D", ".PDF">>,
      <<"https://", "a.example", "/", "b", ".html">>,
      <<"https://", "a.example", "/", "download">>,
      <<"https://", "a.example", "/", "docs", "/", "long", "-", "_", "report", ".pdf">> }

ContentTypes ==
    { <<>>,                                        \* no Content-Type header
      <<"text/html">>,
      <<"application/pdf">>,
      <<"Application/PDF">>,
      <<"application/pdf", "; charset=binary">> }

\* Content-Length headers: none, the empty string, not a number, a number.
Bytes(n) == [kind |-> "int", n |-> n]
ContentLengths ==
    { [kind |-> "absent", n |-> 0], [kind |-> "empty", n |-> 0], [kind |-> "garbage", n |-> 0] }
    \cup { Bytes(n) : n \in { 0, 1, 5243, MB + 131072, 50 * MB, 50 * MB + 1, 50 * MB + 5242,
                              50 * MB + 5243, 60 * MB } }

\* The HEAD request raises (timeout, refused connection), or answers with a
\* status and headers.
HeadResponses ==
    { [exc |-> TRUE, status |-> 0, content_type |-> <<>>,
       content_length |-> [kind |-> "absent", n |-> 0]] }
    \cup { [exc |-> FALSE, status |-> st, content_type |-> ct, content_length |-> cl] :
              st \in {200, 404}, ct \in ContentTypes, cl \in ContentLengths }

\* 'application/pdf' in content_type
HasPdfType(ct) == "application/pdf" \in Range(ct)

\* round(num / den) to the nearest integer, ties to even (Python's round).
RoundHalfEven(num, den) ==
    LET q == num \div den
        r == num % den
    IN  IF 2 * r > den THEN q + 1
        ELSE IF 2 * r < den THEN q
        ELSE IF q % 2 = 0 THEN q ELSE q + 1

\* Line 282: round(int(content_length) / (1024 * 1024), 2), in hundredths.
\* n / 2^20 is exact in a float; the whole MB are split off to stay in range.
SizeCenti(n) == (n \div MB) * 100 + RoundHalfEven((n % MB) * 100, MB)

\* Line 286: size_mb > 50
TooLarge_Off(size_centi) == FALSE

TooLarge(size_centi) == size_centi > 50 * 100

\* Line 280: a header that is present and not the empty string is truthy.
Truthy(cl) == cl.kind \in {"garbage", "int"}

Ret(ok, metadata) == [ok |-> ok, metadata |-> metadata]

(***************************************************************************)
(* Titles.  A title is the sequence of its runs of characters:             *)
(* [c |-> "w", n |-> 6] is six non-blank characters, [c |-> "s", n |-> 2]  *)
(* two whitespace characters, [c |-> ".", n |-> 3] the three dots.         *)
(***************************************************************************)
Run(c, n) == [c |-> c, n |-> n]

\* len(title)
RECURSIVE TitleLen(_)
TitleLen(t) == IF t = <<>> THEN 0 ELSE Head(t).n + TitleLen(Tail(t))

\* Adjacent runs of the same kind are one run.
RECURSIVE Merge(_)
Merge(t) ==
    IF Len(t) < 2 THEN t
    ELSE IF t[1].c = t[2].c
         THEN Merge(<<Run(t[1].c, t[1].n + t[2].n)>> \o SubSeq(t, 3, Len(t)))
         ELSE <<t[1]>> \o Merge(Tail(t))

\* str.strip()
Strip(t) ==
    LET a == IF t # <<>> /\ t[1].c = "s" THEN Tail(t) ELSE t
    IN  IF a # <<>> /\ a[Len(a)].c = "s" THEN SubSeq(a, 1, Len(a) - 1) ELSE a

\* re.sub(r'\s+', ' ', title)
CollapseSpaces(t) == [i \in DOMAIN t |-> IF t[i].c = "s" THEN Run("s", 1) ELSE t[i]]

\* title[:k]
RECURSIVE Prefix(_, _)
Prefix(t, k) ==
    IF k <= 0 \/ t = <<>> THEN <<>>
    ELSE IF Head(t).n <= k THEN <<Head(t)>> \o Prefix(Tail(t), k - Head(t).n)
    ELSE <<Run(Head(t).c, k)>>

\* Lines 369-374: clean up the title.
CleanTitle(t) ==
    LET c == Strip(CollapseSpaces(t))
    IN  IF TitleLen(c) > 200 THEN Prefix(c, 197) \o <<Run(".", 3)>> ELSE c

\* Line 292: os.path.basename(urlparse(url).path), the pieces after the last "/".
Basename(url) ==
    IF "/" \notin Range(url) THEN <<>>
    ELSE LET k == CHOOSE i \in DOMAIN url :
                     url[i] = "/" /\ \A j \in i + 1 .. Len(url) : url[j] # "/"
         IN  SubSeq(url, k + 1, Len(url))

\* The length of a piece of a file name; "long" stands for a name of 250 letters.
PieceLen(t) ==
    CASE t = "long" -> 250
      [] t = "download" -> 8
      [] t = "report" -> 6
      [] t = ".html" -> 5
      [] t = ".PDF" -> 4
      [] OTHER -> 1

\* Line 293: '.pdf' is removed, '-', '_' and '%20' become a space each.
PieceRuns(t) ==
    CASE t = ".pdf" -> <<>>
      [] t \in {"-", "_", "%20"} -> <<Run("s", 1)>>
      [] OTHER -> <<Run("w", PieceLen(t))>>

RECURSIVE Deslug(_)
Deslug(pieces) ==
    IF pieces = <<>> THEN <<>> ELSE PieceRuns(Head(pieces)) \o Deslug(Tail(pieces))

\* Lines 292-294: the title from the file name; ' '.join(.. title.split())
\* leaves single spaces between the words (capitalize changes no length).
FilenameTitle(url) == Strip(CollapseSpaces(Merge(Deslug(Basename(url)))))

\* Lines 279-295: the metadata after the HEAD checks passed.
HeadMetadata(url, cl) ==
    (IF Truthy(cl) THEN [sizeMB |-> SizeCenti(cl.n)] ELSE NoMetadata)
    @@ [title |-> FilenameTitle(url)]

\* What pdfplumber makes of the downloaded prefix: where it raises ("open":
\* pdfplumber.open, "metadata": reading pdf.metadata, "pages": len(pdf.pages),
\* "none"), the embedded Title (<<>>: none), the text of the first page
\* (<<>>: none).
EmbeddedTitles ==
    { <<>>,
      <<Run("s", 2), Run("w", 6), Run("s", 3), Run("w", 6), Run("s", 1)>>,
      <<Run("w", 300)>> }
FirstPageTexts == { <<>>, <<Run("w", 5), Run("s", 2), Run("w", 11)>> }
Extractions ==
    [fail_at : {"open", "metadata", "pages", "none"}, title : EmbeddedTitles,
     text : FirstPageTexts]

\* Lines 324-362: the metadata after the extraction x.
Extracted(url, metadata, x) ==
    LET m1 == IF x.title # <<>> THEN [title |-> x.title] @@ metadata ELSE metadata   \* 326-327
        m2 == [pages |-> 3] @@ m1                                                   \* 343
        line == Strip(x.text)                                                       \* 354
    IN  CASE x.fail_at \in {"open", "metadata"} -> metadata
          [] x.fail_at = "pages" -> m1
          [] OTHER -> IF /\ m2.title = FilenameTitle(url)                           \* 346
                         /\ x.text # <<>>                                           \* 350
                         /\ 10 < TitleLen(line) /\ TitleLen(line) < 100             \* 355
                      THEN [title |-> line] @@ m2
                      ELSE m2

\* Lines 368-376: the title is cleaned up and (True, metadata) returned.
Finish(metadata) == Ret(TRUE, [metadata EXCEPT !.title = CleanTitle(@)])

pc_unchanged == UNCHANGED <<pipe_vars, crawl_vars, search_vars>>

ValidateStart(url, verify) ==
    /\ pc_unchanged
    /\ vpc = "off"
    /\ v_url' = url
    /\ v_verify' = verify
    /\ vpc' = "head"
    /\ UNCHANGED <<v_head, v_get, temp_file, v_fail, v_ret>>

\* Lines 268-299 and 378-381: the HEAD request and the checks on its headers.
ValidateHead(resp) ==
    /\ pc_unchanged
    /\ vpc = "head"
    /\ v_head' = resp
    /\ LET cl == resp.content_length
       IN  IF resp.exc                                                      \* line 378
           THEN v_ret' = Ret(FALSE, NoMetadata) /\ vpc' = "done"
           ELSE IF ~HasPdfType(Lower(resp.content_type)) /\ ~EndsWithPdf(Lower(v_url))
           THEN v_ret' = Ret(FALSE, NoMetadata) /\ vpc' = "done"            \* line 276
           ELSE IF cl.kind = "garbage"                                      \* int() raises
           THEN v_ret' = Ret(FALSE, NoMetadata) /\ vpc' = "done"
           ELSE IF Truthy(cl) /\ TooLarge(SizeCenti(cl.n))
           THEN v_ret' = Ret(FALSE, NoMetadata) /\ vpc' = "done"            \* line 289
           ELSE IF ~v_verify
           THEN v_ret' = Ret(TRUE, HeadMetadata(v_url, cl)) /\ vpc' = "done"   \* line 299
           ELSE v_ret' = Ret(FALSE, HeadMetadata(v_url, cl)) /\ vpc' = "deep"
    /\ UNCHANGED <<v_url, v_verify, v_get, temp_file, v_fail>>

\* Lines 301-314: the GET of the deep verification.  kind: "no_pdfplumber"
\* (line 302 is false, no GET), "get_exception" (the GET or the download
\* raises: timeout, refused or broken connection), "not_200", "ok" (the first
\* chunks are downloaded).
ValidateDeep(kind) ==
    /\ pc_unchanged
    /\ vpc = "deep"
    /\ v_get' = CASE kind = "no_pdfplumber" -> "none"
                  [] kind = "get_exception" -> "exception"
                  [] OTHER -> kind
    /\ CASE kind = "get_exception" -> v_ret' = Ret(FALSE, NoMetadata) /\ vpc' = "done"
         [] kind = "ok" -> vpc' = "temp" /\ UNCHANGED v_ret
         [] OTHER -> v_ret' = Finish(v_ret.metadata) /\ vpc' = "done"
    /\ UNCHANGED <<v_url, v_verify, v_head, temp_file, v_fail>>

\* Lines 316-320: the chunks are saved to the temporary file.  kind:
\* "open_raises" (no file is created), "write_raises" (open created the file,
\* a write fails: a full disk, an I/O error), "written".
ValidateTemp(kind) ==
    /\ pc_unchanged
    /\ vpc = "temp"
    /\ temp_file' = IF kind = "open_raises" THEN temp_file ELSE "exists"
    /\ IF kind = "written"
       THEN vpc' = "extract" /\ UNCHANGED v_ret
       ELSE v_ret' = Ret(FALSE, NoMetadata) /\ vpc' = "done"               \* line 378
    /\ UNCHANGED <<v_url, v_verify, v_head, v_get, v_fail>>

\* Lines 322-376: the extraction from the temporary file (its errors are
\* caught at line 360), the removal of the file in the finally clause, the
\* cleanup of the title and the return.
ValidateExtract(x) ==
    /\ pc_unchanged
    /\ vpc = "extract"
    /\ temp_file' = "absent"                                               \* lines 365-366
    /\ v_ret' = Finish(Extracted(v_url, v_ret.metadata, x))
    /\ v_fail' = x.fail_at
    /\ vpc' = "done"
    /\ UNCHANGED <<v_url, v_verify, v_head, v_get>>

InitValidate == InitPipe /\ InitCrawlIdle /\ InitValIdle /\ InitSearchIdle /\ disk = File("missing", NoDoc)

NextValidate ==
    \/ \E url \in ValUrls, verify \in BOOLEAN : ValidateStart(url, verify)
    \/ \E resp \in HeadResponses : ValidateHead(resp)
    \/ \E kind \in {"no_pdfplumber", "get_exception", "not_200", "ok"} : ValidateDeep(kind)
    \/ \E kind \in {"open_raises", "write_raises", "written"} : ValidateTemp(kind)
    \/ \E x \in Extractions : ValidateExtract(x)

SpecValidate == InitValidate /\ [][NextValidate]_vars

-----------------------------------------------------------------------------
(***************************************************************************)
(* search_using_google (lines 100-136) and search_using_duckduckgo (lines  *)
(* 138-187).  URLs and hrefs are sequences of pieces, as in the crawl:     *)
(*    "//duckduckgo.com/l/?uddg=https%3A%2F%2Fa.example%2Fa.pdf&rut=1"     *)
(*       <<"//duckduckgo.com", "/l/?uddg=", "https%3A%2F%2F", "a.example", *)
(*         "%2F", "a", ".pdf", "&", "rut=1">>                              *)
(***************************************************************************)
MaxHits == 2   \* URLs an engine delivers to one search (yields, result anchors)

\* The URLs the engines lead to.
HitA == <<"https://", "a.example", "/", "a", ".pdf">>
HitD == <<"https://", "a.example", "/", "D", ".PDF">>
HitB == <<"https://", "a.example", "/", "b", ".html">>
Hits == {HitA, HitD, HitB}

\* urllib.parse.quote of a piece, and unquote (line 177).
QuotePiece(t) ==
    CASE t = "https://" -> "https%3A%2F%2F"
      [] t = "/" -> "%2F"
      [] OTHER -> t
UnquotePiece(t) ==
    CASE t = "https%3A%2F%2F" -> "https://"
      [] t = "%2F" -> "/"
      [] OTHER -> t
Unquote(s) == [i \in DOMAIN s |-> UnquotePiece(s[i])]

\* A result anchor of DuckDuckGo's HTML page: the redirect wrapper around url.
DdgWrap(url, tail) ==
    <<"//duckduckgo.com", "/l/?uddg=">> \o [i \in DOMAIN url |-> QuotePiece(url[i])] \o tail

\* The hrefs of the result anchors: no or an empty href, a direct link, and
\* wrapped links with and without further parameters.
DdgHrefs ==
    { <<>>, HitA }
    \cup { DdgWrap(u, <<"&", "rut=1">>) : u \in Hits }
    \cup { DdgWrap(HitA, <<>>) }

\* The index of the first piece of s that is t, 0 when there is none.
IndexOf(s, t) ==
    IF t \in Range(s) THEN CHOOSE i \in DOMAIN s : s[i] = t /\ \A j \in 1 .. i - 1 : s[j] # t
    ELSE 0

\* Line 175: '/l/?uddg=' in href
HasRedirect(href) == "/l/?uddg=" \in Range(href)

\* Line 176: href.split('/l/?uddg=')[1].split('&')[0]
SplitTarget(href) ==
    LET after == SubSeq(href, IndexOf(href, "/l/?uddg=") + 1, Len(href))
        amp   == IndexOf(after, "&")
    IN  IF amp = 0 THEN after ELSE SubSeq(after, 1, amp - 1)

\* Lines 176-177: the real target of a redirect wrapper.
ActualUrl(href) == Unquote(SplitTarget(href))

\* Lines 132-136 and 183-187: the handler prints, then `return results`.
AfterFailure_Empty(res) == <<>>

AfterFailure(res) == res

\* Lines 130 and 180: has the search collected enough.
Enough(res, lim) == Len(res) >= lim

cv_unchanged == UNCHANGED <<pipe_vars, crawl_vars, val_vars>>

\* Lines 111-120 and 149-163: the call; `available` is GOOGLE_SEARCH_AVAILABLE.
SearchStart(method, available, lim) ==
    /\ cv_unchanged
    /\ s_pc = "off"
    /\ s_method' = method
    /\ s_limit' = lim
    /\ s_results' = <<>>
    /\ s_pc' = IF method = "google" THEN (IF available THEN "google" ELSE "done")   \* line 114
               ELSE "ddg_get"
    /\ UNCHANGED <<s_links, s_seen, s_failed, s_ret>>

\* Lines 123-131: search() yields a URL (it fetches nothing when num_results
\* is 0), the body of the for loop runs.
GoogleYield(url) ==
    /\ cv_unchanged
    /\ s_pc = "google"
    /\ s_limit > 0
    /\ Len(s_seen) < MaxHits
    /\ LET res == IF EndsWithPdf(Lower(url)) THEN Append(s_results, url) ELSE s_results
       IN  /\ s_results' = res
           /\ s_seen' = Append(s_seen, url)
           /\ IF Enough(res, s_limit)                                    \* line 131
              THEN s_pc' = "done" /\ s_ret' = res
              ELSE UNCHANGED <<s_pc, s_ret>>
    /\ UNCHANGED <<s_method, s_limit, s_links, s_failed>>

\* Lines 123, 132-136: search() is exhausted, or raises (a request that
\* fails, a page it cannot parse).
GoogleEnd(raised) ==
    /\ cv_unchanged
    /\ s_pc = "google"
    /\ s_failed' = raised
    /\ s_ret' = IF raised THEN AfterFailure(s_results) ELSE s_results
    /\ s_pc' = "done"
    /\ UNCHANGED <<s_method, s_limit, s_results, s_links, s_seen>>

\* Lines 165-169 and 183-187: the GET of the results page.  kind: "exception"
\* (timeout, refused connection), "http_error" (raise_for_status),
\* "parse_error", or "html" with the hrefs of the result anchors.
DdgGet(kind, links) ==
    /\ cv_unchanged
    /\ s_pc = "ddg_get"
    /\ IF kind = "html"
       THEN /\ s_links' = links
            /\ s_pc' = "ddg_links"
            /\ UNCHANGED <<s_failed, s_ret>>
       ELSE /\ s_failed' = TRUE
            /\ s_ret' = AfterFailure(s_results)
            /\ s_pc' = "done"
            /\ UNCHANGED s_links
    /\ UNCHANGED <<s_method, s_limit, s_results, s_seen>>

\* Lines 171-181 and 187: one iteration of the for loop over the result
\* anchors, or its end.
DdgLink ==
    /\ cv_unchanged
    /\ s_pc = "ddg_links"
    /\ IF s_links = <<>>
       THEN /\ s_ret' = s_results
            /\ s_pc' = "done"
            /\ UNCHANGED <<s_results, s_links, s_seen>>
       ELSE LET href   == Head(s_links)
                unwrap == href # <<>> /\ HasRedirect(href)               \* lines 173-175
                is_pdf == unwrap /\ EndsWithPdf(Lower(ActualUrl(href)))  \* line 178
                res    == IF is_pdf THEN Append(s_results, ActualUrl(href)) ELSE s_results
            IN  /\ s_results' = res
                /\ s_links' = Tail(s_links)
                /\ s_seen' = IF unwrap THEN Append(s_seen, ActualUrl(href)) ELSE s_seen
                /\ IF is_pdf /\ Enough(res, s_limit)                     \* lines 180-181
                   THEN s_pc' = "done" /\ s_ret' = res
                   ELSE UNCHANGED <<s_pc, s_ret>>
    /\ UNCHANGED <<s_method, s_limit, s_failed>>

InitSearch == InitPipe /\ InitCrawlIdle /\ InitValIdle /\ InitSearchIdle /\ disk = File("missing", NoDoc)

NextSearch ==
    \/ \E method \in {"google", "duckduckgo"}, available \in BOOLEAN, lim \in 0 .. MaxLimit :
          SearchStart(method, available, lim)
    \/ \E url \in Hits : GoogleYield(url)
    \/ \E raised \in BOOLEAN : GoogleEnd(raised)
    \/ \E kind \in {"exception", "http_error", "parse_error"} : DdgGet(kind, <<>>)
    \/ \E links \in SeqsUpTo(DdgHrefs, MaxHits) : DdgGet("html", links)
    \/ DdgLink

SpecSearch == InitSearch /\ [][NextSearch]_vars

-----------------------------------------------------------------------------
(***************************************************************************)
(* Properties of the pipeline (checked under Spec).                        *)
(***************************************************************************)
\* A PDFFinder exists (its constructor returned).
Constructed == pc \notin {"off", "ctor_raised"}

\* A catalog file that holds a Collection.
DiskHoldsCollection == disk.state = "complete" /\ WellFormed(disk.doc)

UrlX == "https://a.example/x.pdf"

\* C1 -- Dedup invariant: from a loaded Collection without duplicate urls,
\* whatever search_and_process calls are made (any candidates, any validation
\* outcomes), no two entries of data['pdfs'] share a url, and neither do two
\* entries of a Collection the pipeline wrote to disk.
C1_DedupInvariant ==
    /\ Constructed => NoDup([i \in DOMAIN data.pdfs |-> data.pdfs[i].url])
    /\ DiskHoldsCollection => NoDup([i \in DOMAIN disk.doc.pdfs |-> disk.doc.pdfs[i].url])

\* C1's case: a call that was handed a URL the Collection already held,
\* together with a new one, has returned.
C1_Witness ==
    /\ call = "returned"
    /\ Len(data.pdfs) >= 2
    /\ \E u \in Range(all_urls) : u \in UrlsOf(pdfs0)
    /\ \E u \in Range(all_urls) : u \notin UrlsOf(pdfs0)

\* C2 -- Merge idempotence: once the Collection holds an entry for URL u, no
\* step of search_and_process applies u again: every entry of the new pdfs
\* sequence whose url was already present is the old entry, at its old place.
C2_MergeIdempotent ==
    [][ (Constructed /\ pc' # "off")
        => \A i \in DOMAIN data'.pdfs :
              data'.pdfs[i].url \in UrlsOf(data.pdfs)
              => (i \in DOMAIN data.pdfs /\ data'.pdfs[i] = data.pdfs[i]) ]_vars

\* C2's case: nothing was loaded, an earlier call of this finder appended u,
\* and a later call that was handed u again has returned.
C2_Witness ==
    /\ call = "returned"
    /\ load_kind # "well_formed"
    /\ \E u \in Range(all_urls) : u \in UrlsOf(pdfs0)

\* C3 -- ID determinism: the id of an entry is a function of its URL only,
\* within one process and across process runs: an entry this process holds
\* and the entry an earlier run wrote to the catalog for the same url have the
\* same id.
C3_IdDeterministic ==
    (Constructed /\ DiskHoldsCollection)
    => \A i \in DOMAIN data.pdfs, j \in DOMAIN disk.doc.pdfs :
          data.pdfs[i].url = disk.doc.pdfs[j].url => data.pdfs[i].id = disk.doc.pdfs[j].id

\* C7 -- Rediscovery: when every candidate of a call is already in the
\* Collection, the call validates none of them, returns the empty list, leaves
\* pdfs as it was, and save_results stamps a later lastValidated and (once it
\* has returned) has written the Collection to the catalog file.
C7_Rediscovery ==
    (call # "none" /\ Range(all_urls) \subseteq UrlsOf(pdfs0))
    => /\ head_log = {}
       /\ results = <<>>
       /\ data.pdfs = pdfs0
       /\ pc \in {"save", "dump", "close"} => data.lastValidated > lv0
       /\ call = "returned" => /\ data.lastValidated > lv0
                               /\ disk = File("complete", data)

\* C7's case: the scenario of the specification, after the call returned.
C7_Witness ==
    /\ call = "returned"
    /\ load_kind = "well_formed"
    /\ all_urls = <<UrlX>>
    /\ Len(pdfs0) = 1 /\ pdfs0[1].url = UrlX

\* C9 -- Atomic persist: the catalog file is never observable empty or
\* partially written (write-then-replace).
C9_AtomicPersist == disk.state \notin {"empty", "partial"}

\* C10 -- Load never fails: with an existing_file that is missing, unreadable,
\* not JSON, or JSON without a well-formed 'pdfs' list, the constructor raises
\* nothing and leaves an empty Collection.
C10_LoadNeverFails ==
    load_kind \in {"missing", "unreadable", "not_json", "no_pdfs_key", "entry_without_url"}
    => /\ pc # "ctor_raised"
       /\ call = "none" => (data.pdfs = <<>> /\ existing_urls = {})

-----------------------------------------------------------------------------
(***************************************************************************)
(* Properties of the site crawl (checked under SpecCrawl).                 *)
(***************************************************************************)
\* The anchors of the current page the for loop has processed, resolved.
Processed == {Resolve(current_url, page_links[i]) : i \in 1 .. link_idx}

\* The seed page of the scenario has been crawled: the for loop over its
\* anchors is over (exhausted, or left by the break of line 238).
ScenarioCrawled ==
    /\ website_url = SeedUrl
    /\ current_url = SeedUrl
    /\ page_links = ScenarioPage
    /\ cpc = "loop"

AbsA == <<"https://", "a.example", "/", "a", ".pdf">>

\* The ceiling the crawl termination property rests on: the frontier's.
SafetyCeiling == FrontierCap + 1

\* C4 -- Crawl termination: the crawl ends after a bounded number of page
\* fetches whatever the site, the frontier ceiling being what bounds it: the
\* loop is left once the visited count exceeds the ceiling, so the crawl never
\* fetches more than that many pages.
C4_FetchesBounded == Cardinality(visited) <= SafetyCeiling

\* C5 -- Domain scoping: every URL in the frontier, and the URL being
\* fetched, has the seed's domain.
C5_DomainScoping ==
    /\ \A u \in Range(to_visit) : Netloc(u) = Netloc(website_url)
    /\ cpc \in {"fetch", "links"} => Netloc(current_url) = Netloc(website_url)

\* C5's case: on a page reached through a link (not the seed), anchors to
\* another domain have been processed, one of them a '//host/...' href that
\* line 230 takes for a relative URL, and the frontier has taken a link.
C5_Witness ==
    /\ cpc = "links"
    /\ current_url # website_url
    /\ \E i \in 1 .. link_idx : page_links[i] = HrefY
    /\ \E u \in Processed : Netloc(u) = "other.example"
    /\ to_visit # <<>>

\* C6 (as claimed) -- cross-domain document links are excluded from the
\* results: the scenario's seed page yields exactly one candidate, the absolute
\* form of /a.pdf, and no result is on another domain than the seed.
C6_CrossDomainExcluded ==
    /\ (ScenarioCrawled /\ limit >= 1) => c_results = <<AbsA>>
    /\ \A i \in DOMAIN c_results :
          Netloc(c_results[i]) \in {"", Netloc(website_url)}

\* C6 (amended) -- cross-domain document links are results: the scenario's seed
\* page yields the absolute form of /a.pdf and then https://other.example/c.pdf
\* (only the first under limit 1), and every processed anchor that ends in
\* .pdf is among the results, whatever its domain.
C6_CrossDomainReturned ==
    /\ (ScenarioCrawled /\ limit >= 2) => c_results = <<AbsA, HrefC>>
    /\ (ScenarioCrawled /\ limit = 1) => c_results = <<AbsA>>
    /\ cpc \in {"links", "loop"} =>
          \A u \in Processed : EndsWithPdf(Lower(u)) => u \in Range(c_results)

\* C6's case: the scenario's seed page has been crawled with room for both
\* documents.
C6_Witness == ScenarioCrawled /\ limit >= 2 /\ HrefC \in Range(c_results)

-----------------------------------------------------------------------------
(***************************************************************************)
(* Properties of the validator (checked under SpecValidate).               *)
(***************************************************************************)
\* The HEAD response came back and declared 60MB.
Declares60MB == vpc \in {"deep", "done"} /\ ~v_head.exc /\ v_head.content_length = Bytes(60 * MB)

\* C8 -- Validator size filter: a URL whose HEAD response declares a
\* Content-Length of 60MB is rejected (ok = false, no metadata) without any
\* deep verification, whatever its Content-Type and extension, with verify
\* or without.
C8_SizeFilter ==
    Declares60MB => (vpc = "done" /\ v_ret = Ret(FALSE, NoMetadata))

\* C8's case: a .pdf URL served as application/pdf, 60MB long, deep
\* verification requested, and the validator has returned.
C8_Witness ==
    /\ Declares60MB
    /\ vpc = "done"
    /\ v_verify
    /\ HasPdfType(Lower(v_head.content_type))
    /\ EndsWithPdf(Lower(v_url))

-----------------------------------------------------------------------------
(***************************************************************************)
(* Properties of the engine searches (checked under SpecSearch).           *)
(***************************************************************************)
\* The .pdf URLs among those the engine delivered.
RECURSIVE PdfOnly(_)
PdfOnly(urls) ==
    IF urls = <<>> THEN <<>>
    ELSE (IF EndsWithPdf(Lower(Head(urls))) THEN <<Head(urls)>> ELSE <<>>) \o PdfOnly(Tail(urls))

SearchFailed == s_pc = "done" /\ s_failed

\* C11 (as claimed) -- Search-engine failure degrades to empty: a search in
\* which a network or parse failure occurred, at whatever point, returns the
\* empty list.
C11_FailureReturnsEmpty == SearchFailed => s_ret = <<>>

\* C11 (amended) -- a search in which a failure occurred returns (and does not
\* raise) the .pdf URLs the engine delivered before the failure: all those
\* search() yielded for search_using_google, none for search_using_duckduckgo,
\* whose failures all come before the first result is collected.
C11_FailureReturnsCollected ==
    SearchFailed => /\ s_ret = PdfOnly(s_seen)
                    /\ s_method = "duckduckgo" => s_ret = <<>>

\* C11's case: search() raised after it had yielded a .pdf URL (and the limit
\* was not reached).
C11_Witness == SearchFailed /\ s_method = "google" /\ HitA \in Range(s_seen)

\* C15 -- Limit respected: for every limit >= 0 the list an engine search
\* returns has at most limit URLs.
C15_LimitRespected == s_pc = "done" => Len(s_ret) <= s_limit

-----------------------------------------------------------------------------
(***************************************************************************)
(* More properties of the validator (checked under SpecValidate).          *)
(***************************************************************************)
\* A request of the validation timed out, was refused, or was answered with
\* a status other than 200.
TransientError ==
    \/ v_head.exc
    \/ v_head.status # 200
    \/ v_get \in {"exception", "not_200"}

\* C12 -- Transient network errors drop the candidate: when the HEAD request
\* or the GET of the deep verification timed out, was refused or returned a
\* non-200 status, validate_pdf_url returns ok = false with empty metadata.
C12_TransientDropped ==
    (vpc = "done" /\ TransientError) => v_ret = Ret(FALSE, NoMetadata)

\* C13 -- Scratch-file cleanup: whenever validate_pdf_url has returned, the
\* temporary file it created no longer exists.
C13_TempFileRemoved == vpc = "done" => temp_file = "absent"

\* No run of more than one whitespace character, and at most 200 characters.
TitleNormalized(t) ==
    /\ \A i \in DOMAIN Merge(t) : Merge(t)[i].c = "s" => Merge(t)[i].n = 1
    /\ TitleLen(t) <= 200

\* C16 -- Title normalization: whenever validate_pdf_url returns ok = true,
\* with verify or without, the returned title has no run of more than one
\* whitespace character and at most 200 characters.
C16_TitleNormalized ==
    (vpc = "done" /\ v_ret.ok) => TitleNormalized(v_ret.metadata.title)

-----------------------------------------------------------------------------
(***************************************************************************)
(* More properties of the site crawl (checked under SpecCrawl).            *)
(***************************************************************************)
\* C17 -- Politeness delay per fetch: when the crawl is back at the head of
\* its loop, a delay has been taken since the last page fetch, however that
\* fetch ended; at no point have two pages been fetched without a delay
\* between them.
C17_DelayPerFetch ==
    /\ cpc = "loop" => undelayed = 0
    /\ undelayed <= 1

\* C18 -- Document links are not expanded: no URL that ends in the document
\* extension is in the frontier, and none is fetched as a page.
C18_DocumentsNotExpanded ==
    \A u \in Range(to_visit) \cup (visited \ {website_url}) : ~EndsWithPdf(Lower(u))

\* C19 -- Candidates are absolute: every URL in the crawl's results is an
\* absolute URL, relative hrefs (root-relative or path-relative) having been
\* resolved against the page they were found on.
C19_CandidatesAbsolute == \A i \in DOMAIN c_results : IsAbsolute(c_results[i])

\* C20 -- Frontier bound: at every point of a crawl the number of pending
\* URLs in to_visit is at most the ceiling of line 241.
C20_FrontierBound == Len(to_visit) <= FrontierCap

\* C20's case: the frontier is at its ceiling and the anchor just processed,
\* a link into the site that is neither visited nor pending, was left out.
C20_Witness ==
    /\ cpc = "links"
    /\ link_idx >= 1
    /\ Len(to_visit) = FrontierCap
    /\ LET href == Resolve(current_url, page_links[link_idx])
       IN  /\ href \notin visited
           /\ href \notin Range(to_visit)
           /\ SameDomain(current_url, href)

-----------------------------------------------------------------------------
(***************************************************************************)
(* More properties of the pipeline (checked under Spec).                   *)
(***************************************************************************)
\* The candidates of the call that the Collection did not hold, in order.
NewCandidates == UniqueFrom(all_urls, {}, UrlsOf(pdfs0))

\* C14 -- Per-candidate failure isolation: no failure of a backend or of a
\* validation leaves search_and_process as an exception; when save_results
\* runs, every new candidate of the call has been handed to the validator,
\* whatever happened to the candidates before it and to the backends; and
\* once the call has returned the Collection is in the catalog file.
C14_FailureIsolation ==
    /\ pc # "call_raised"
    /\ pc \in {"save", "dump", "close", "save_raised"} => head_log = Range(NewCandidates)
    /\ call = "returned" => /\ head_log = Range(NewCandidates)
                            /\ disk = File("complete", data)

\* C14's case: the first backend failed and the second still delivered a
\* URL; the validation of the first candidate failed and the second
\* candidate was still validated and appended; the call has returned.
C14_Witness ==
    /\ call = "returned"
    /\ resumed
    /\ Len(NewCandidates) = 2
    /\ Len(results) = 1
    /\ results[1].url = NewCandidates[2]

-----------------------------------------------------------------------------
(***************************************************************************)
(* Order and consistency of the frontier (checked under SpecCrawl).        *)
(***************************************************************************)
\* C21 -- Breadth-first order: the URLs are fetched in exactly the order in
\* which they were enqueued (the fetched URLs are the first of the enqueued
\* ones, in the same order), so no page is fetched before a page that was
\* enqueued at a smaller depth.
C21_BreadthFirst ==
    /\ Len(fetch_log) <= Len(enq_log)
    /\ \A i \in DOMAIN fetch_log : fetch_log[i] = enq_log[i].url
    /\ \A i \in DOMAIN fetch_log : \A j \in DOMAIN enq_log :
          enq_log[j].depth < enq_log[i].depth => j < i

\* C21's case: a page of depth 1 is fetched while a page of depth 2, enqueued
\* before that fetch, is still pending.
C21_Witness ==
    /\ cpc = "fetch"
    /\ Len(fetch_log) = 3
    /\ enq_log[3].depth = 1
    /\ \E j \in DOMAIN enq_log : j > 3 /\ enq_log[j].depth = 2

\* C24 -- Frontier consistency: to_visit holds no URL twice and no URL that
\* is in visited, so that the popped URL is never an already visited one and
\* no URL is fetched twice.
C24_FrontierConsistent ==
    /\ NoDup(to_visit)
    /\ Range(to_visit) \cap visited = {}
    /\ NoDup(fetch_log)
    /\ Range(fetch_log) = visited

\* C24's case: a page links back to a page already visited (the seed) while
\* the frontier has room, and the link was not enqueued.
C24_Witness ==
    /\ cpc = "links"
    /\ link_idx >= 1
    /\ Len(to_visit) < FrontierCap
    /\ current_url # website_url
    /\ Resolve(current_url, page_links[link_idx]) = website_url

-----------------------------------------------------------------------------
(***************************************************************************)
(* Extraction errors and the size ceiling (checked under SpecValidate).    *)
(***************************************************************************)
\* The validation has returned after an extraction that raised.
ExtractionFailed == vpc = "done" /\ v_fail \in {"open", "metadata", "pages"}

\* C22 -- Extraction-error fallback: when the extraction of the deep
\* verification fails at any point (opening the document, reading its
\* metadata, counting its pages), validate_pdf_url returns ok = true, the
\* returned title is the (cleaned up) filename-derived title, and the
\* metadata has no pages field.
C22_ExtractionFallback ==
    ExtractionFailed => /\ v_ret.ok
                        /\ v_ret.metadata.title = CleanTitle(FilenameTitle(v_url))
                        /\ "pages" \notin DOMAIN v_ret.metadata

\* The HEAD response passed the content-type test and declares an integer
\* Content-Length.
DeclaresSize ==
    /\ vpc \in {"deep", "temp", "extract", "done"}
    /\ ~v_head.exc
    /\ v_head.content_length.kind = "int"
    /\ HasPdfType(Lower(v_head.content_type)) \/ EndsWithPdf(Lower(v_url))

\* C23 -- Size ceiling boundary: a declared Content-Length n above 50MB
\* (n > 50 * 1024 * 1024) is rejected, whatever the rounding of the size; an
\* n at or below 50MB is not rejected on size (without deep verification the
\* URL is accepted).
C23_SizeBoundary ==
    DeclaresSize =>
       /\ v_head.content_length.n > 50 * MB => (vpc = "done" /\ v_ret = Ret(FALSE, NoMetadata))
       /\ (v_head.content_length.n <= 50 * MB /\ vpc = "done" /\ ~v_verify) => v_ret.ok

-----------------------------------------------------------------------------
(***************************************************************************)
(* The catalog and the known-URL set across a call (checked under Spec).   *)
(***************************************************************************)
\* A call of search_and_process has started in this process; pdfs0 is the
\* catalog's sequence at its start.
InCall == call \in {"running", "returned"}

\* The entries data['pdfs'] holds beyond those it held when the call started.
AppendedInCall == SubSeq(data.pdfs, Len(pdfs0) + 1, Len(data.pdfs))

\* C25 -- Known-URL set stays in sync: after the constructor and after every
\* search_and_process call (and at every loop iteration in between),
\* existing_urls is exactly the set of the url values of the entries of
\* data['pdfs'], and the list the call returns is exactly the sequence of
\* the entries appended to data['pdfs'] during the call, in the same order.
C25_KnownUrlsInSync ==
    /\ Constructed => existing_urls = UrlsOf(data.pdfs)
    /\ InCall => /\ Len(pdfs0) <= Len(data.pdfs)
                 /\ results = AppendedInCall

\* A call on a catalog loaded from disk with one entry has returned a new one.
C25_Witness ==
    /\ pc = "idle" /\ call = "returned" /\ load_kind = "well_formed"
    /\ pdfs0 # <<>> /\ results # <<>>
    /\ existing_urls = UrlsOf(pdfs0) \cup UrlsOf(results)

\* The position of the first occurrence of url among the discovered URLs.
Discovered(url) == CHOOSE i \in DOMAIN all_urls :
                       all_urls[i] = url /\ \A k \in 1 .. i - 1 : all_urls[k] # url

\* C26 -- Append-only merge: search_and_process never removes, reorders or
\* replaces an entry already in data['pdfs'] (the sequence before the call is
\* a prefix of the sequence during and after it), and the new entries are
\* appended in the order their URLs were discovered (backend after backend,
\* then by position in each backend's list).
C26_AppendOnly ==
    InCall =>
       /\ Len(pdfs0) <= Len(data.pdfs)
       /\ SubSeq(data.pdfs, 1, Len(pdfs0)) = pdfs0
       /\ \A i \in DOMAIN AppendedInCall :
             \E k \in DOMAIN all_urls : all_urls[k] = AppendedInCall[i].url
       /\ \A i, j \in DOMAIN AppendedInCall :
             i < j => Discovered(AppendedInCall[i].url) < Discovered(AppendedInCall[j].url)

\* A call that started on a catalog with an entry has appended a new entry
\* after it; the discovery had found the catalogued URL again, ahead of the
\* new one.
C26_Witness ==
    /\ call = "returned" /\ pdfs0 # <<>> /\ Len(data.pdfs) = Len(pdfs0) + 1
    /\ Len(all_urls) = 2 /\ all_urls[1] = pdfs0[1].url
    /\ data.pdfs[Len(data.pdfs)].url = all_urls[2]

=============================================================================
